---------------------------- MODULE Spec2Model ----------------------------
(* Model of the quiz extraction core of src/main.py:                        *)
(*   _extract_quiz_options  (the window.quizOptions_N['id'] = 'b64' scan)   *)
(*   _parse_quiz_from_html  (one Question per div.step[data-question-id])   *)
(*                                                                          *)
(* A page is modelled by what the two readers of the HTML see:              *)
(*   html  - the matches of QUIZ_OPTIONS_RE.findall, in text order          *)
(*   steps - the elements of soup.select("div.step[data-question-id]"),     *)
(*           in document order                                              *)
(* together with the page url and the text of the first <h1>, if any.       *)
EXTENDS Integers, Sequences, FiniteSets, TLC

VARIABLES
    page,           \* the input: [url, h1, html, steps]
    pc,             \* "start" | "loop" | "returned" | "raised"
    quiz_options,   \* the dict built by _extract_quiz_options
    idx,            \* number of steps of the for loop already taken
    questions,      \* the list `questions`
    q_types,        \* the value of q_type in each completed iteration
    test            \* the returned Test, NoTest before the return

vars == <<page, pc, quiz_options, idx, questions, q_types, test>>

--------------------------------------------------------------------------
(* Bounds of the model.                                                    *)

MaxAssign == 3      \* config assignments in a text (extraction runs)
MaxSteps == 2       \* question blocks on a page (page runs)
MaxFields == 2      \* answer fields / matching pairs in a block (block runs)

--------------------------------------------------------------------------
(* JSON values as Python sees them after json.loads.                       *)
(* A scalar is [t, s]: t the type, s the JSON literal (for a string, its   *)
(* content). A value that may be an object also has m, the object's items  *)
(* in insertion order, each [k, v] with v a scalar.                        *)

Sc(t, s) == [t |-> t, s |-> s]
Val(t, s, m) == [t |-> t, s |-> s, m |-> m]
Item(k, v) == [k |-> k, v |-> v]

Absent == Val("absent", "", <<>>)       \* the key is not in the dict
PyNone == Val("null", "", <<>>)         \* None (JSON null)
JStr(s) == Val("str", s, <<>>)
JInt(s) == Val("int", s, <<>>)
JObj(m) == Val("obj", "", m)
JArr(m) == Val("arr", "", m)

\* Python truthiness of a value (the `or` chain of line 156, `if correct_map`,
\* `if ans`).
Truthy(v) ==
    CASE v.t = "str" -> v.s # ""
      [] v.t = "int" -> v.s # "0"
      [] v.t = "bool" -> v.s = "true"
      [] v.t \in {"obj", "arr"} -> v.m # <<>>
      [] OTHER -> FALSE

\* Faulty variant of Lower: the flag is compared without lower-casing.
Lower_Identity(s) == s

\* str.lower() on the strings of the model.
Lower(s) ==
    CASE s = "TRUE" -> "true"
      [] s = "True" -> "true"
      [] s = "False" -> "false"
      [] s = "None" -> "none"
      [] s = "YES" -> "yes"
      [] OTHER -> s

\* repr() of a scalar inside a container.
PyReprSc(v) ==
    CASE v.t = "str" -> "'" \o v.s \o "'"
      [] v.t = "int" -> v.s
      [] v.t = "bool" -> (IF v.s = "true" THEN "True" ELSE "False")
      [] v.t = "arr" -> "[" \o v.s \o "]"
      [] OTHER -> "None"

\* str() of a scalar.
PyStrSc(v) == IF v.t = "str" THEN v.s ELSE PyReprSc(v)

RECURSIVE PyReprItems(_)
PyReprItems(m) ==
    IF m = <<>> THEN ""
    ELSE "'" \o Head(m).k \o "': " \o PyReprSc(Head(m).v)
         \o (IF Len(m) > 1 THEN ", " ELSE "") \o PyReprItems(Tail(m))

\* The elements of a list are kept as items with an empty key.
RECURSIVE PyReprElems(_)
PyReprElems(m) ==
    IF m = <<>> THEN ""
    ELSE PyReprSc(Head(m).v) \o (IF Len(m) > 1 THEN ", " ELSE "")
         \o PyReprElems(Tail(m))

\* str() of a value.
PyStr(v) ==
    CASE v.t = "obj" -> "{" \o PyReprItems(v.m) \o "}"
      [] v.t = "arr" -> "[" \o PyReprElems(v.m) \o "]"
      [] OTHER -> PyStrSc(Sc(v.t, v.s))

--------------------------------------------------------------------------
(* Decoded config payloads.                                                *)
(* data.t is the type of the decoded JSON document; for an object,         *)
(* question_type and question_answer are its two keys (Absent if missing). *)

Cfg(qt, qa) == [t |-> "obj", question_type |-> qt, question_answer |-> qa]
NonObj(t) == [t |-> t, question_type |-> Absent, question_answer |-> Absent]
EmptyDict == Cfg(Absent, Absent)        \* the {} default of line 155

\* dict.get(key) / dict.get(key, default) on a decoded object.
DictGet(v, default) == IF v.t = "absent" THEN default ELSE v

\* dict.get(k, default) on the items of a mapping: the value of key k.
RECURSIVE MapGet(_, _, _)
MapGet(m, k, default) ==
    IF m = <<>> THEN default
    ELSE IF Head(m).k = k THEN Head(m).v
    ELSE MapGet(Tail(m), k, default)

--------------------------------------------------------------------------
(* Tokens: the base64 text of one assignment. kind says how far the        *)
(* decoding of line 125-126 gets; data is what json.loads returns.         *)

Token(kind, data) == [kind |-> kind, data |-> data]
BadKinds == {"bad_base64", "bad_utf8", "bad_json"}

\* base64.b64decode(b64).decode("utf-8") then json.loads(decoded):
\* raised is TRUE when any of the three raises.
Decode(b64) == [raised |-> b64.kind \in BadKinds, data |-> b64.data]

Match(qid, b64) == [qid |-> qid, b64 |-> b64]

\* Faulty variant of DictSet: result.setdefault(qid, data), the first
\* assignment for an id wins.
DictSet_KeepFirst(result, qid, data) ==
    [q \in (DOMAIN result) \cup {qid} |->
        IF q \in DOMAIN result THEN result[q] ELSE data]

\* The dict after `result[qid] = data`.
DictSet(result, qid, data) ==
    [q \in (DOMAIN result) \cup {qid} |-> IF q = qid THEN data ELSE result[q]]

\* Faulty variant of ExtractOne: a failed decode stores an empty config
\* for the id instead of skipping the assignment.
ExtractOne_StoreEmptyOnFailure(result, match) ==
    LET d == Decode(match.b64) IN
    [q \in (DOMAIN result) \cup {match.qid} |->
        IF q = match.qid THEN (IF d.raised THEN EmptyDict ELSE d.data)
        ELSE result[q]]

\* One iteration of the for loop of _extract_quiz_options.
ExtractOne(result, match) ==
    LET d == Decode(match.b64) IN
    IF d.raised THEN result
    ELSE DictSet(result, match.qid, d.data)

RECURSIVE ExtractFrom(_, _)
ExtractFrom(result, matches) ==
    IF matches = <<>> THEN result
    ELSE ExtractFrom(ExtractOne(result, Head(matches)), Tail(matches))

_extract_quiz_options(html) == ExtractFrom(<<>>, html)


--------------------------------------------------------------------------
(* The DOM side of a page.                                                 *)

Attr(has, val) == [has |-> has, val |-> val]       \* an optional attribute
NoAttr == Attr(FALSE, "")
Img(src) == [src |-> src]                          \* <img>, src an Attr

\* One `.ays-quiz-answers .ays-field`.
\*   has_input : an input matching input[id^='ays-answer-'] is inside
\*   value     : the input's value attribute
\*   has_label : a label[for=<input id>] is inside
\*   own_text  : the label's direct text;  caption : the text of a label
\*               nested inside it ("" when there is none)
\*   imgs      : the <img> elements inside the label
Field(has_input, value, has_label, own_text, caption, imgs) ==
    [has_input |-> has_input, value |-> value, has_label |-> has_label,
     own_text |-> own_text, caption |-> caption, imgs |-> imgs]

\* One `.ays-matching-field .ays-matching-field-option`.
Pair(has_choice, choice_text, choice_imgs, has_match, answer_id) ==
    [has_choice |-> has_choice, choice_text |-> choice_text,
     choice_imgs |-> choice_imgs, has_match |-> has_match,
     answer_id |-> answer_id]

\* The .ays_quiz_question element of a block.
QBlock(has, text, imgs) == [has |-> has, text |-> text, imgs |-> imgs]

\* One div.step[data-question-id].
Step(qid, data_type, q_block, fields, pairs) ==
    [qid |-> qid, data_type |-> data_type, q_block |-> q_block,
     fields |-> fields, pairs |-> pairs]

\* element.get_text(" ", strip=True): the stripped, non-empty text nodes of
\* the element and of its descendants, joined by one space.
RECURSIVE GetText(_)
GetText(nodes) ==
    IF nodes = <<>> THEN ""
    ELSE LET rest == GetText(Tail(nodes)) IN
         IF Head(nodes) = "" THEN rest
         ELSE IF rest = "" THEN Head(nodes)
         ELSE Head(nodes) \o " " \o rest

\* The text nodes under a field's label: its own text, then the nested
\* label's text.
LabelNodes(field) == <<field.own_text, field.caption>>

AbsoluteSrcs == {"https://cdn.example/b.png"}

\* urllib.parse.urljoin(url, src), for a url ending in "/" and a src that
\* is absolute or a relative path.
urljoin(url, src) == IF src \in AbsoluteSrcs THEN src ELSE url \o src

\* [urljoin(url, src) for each img whose src attribute is non-empty]
RECURSIVE ImgUrls(_, _)
ImgUrls(url, imgs) ==
    IF imgs = <<>> THEN <<>>
    ELSE LET src == Head(imgs).src IN
         (IF src.has /\ src.val # "" THEN <<urljoin(url, src.val)>> ELSE <<>>)
         \o ImgUrls(url, Tail(imgs))

AnswerOption(text, is_correct, images) ==
    [text |-> text, is_correct |-> is_correct, images |-> images]

\* What a piece of the extraction yields: raised, or a list of options.
Raised == [raised |-> TRUE, options |-> <<>>]
Ok(options) == [raised |-> FALSE, options |-> options]

--------------------------------------------------------------------------
(* Line 156: cfg.get("question_type") or step.get("data-type") or "radio" *)

\* Faulty variant of q_type_of: the block's data-type attribute is
\* preferred to the config's question_type.
q_type_of_AttrFirst(cfg, step) ==
    LET declared == DictGet(cfg.question_type, PyNone)
        own == IF step.data_type.has THEN JStr(step.data_type.val) ELSE PyNone
    IN  IF Truthy(own) THEN own
        ELSE IF Truthy(declared) THEN declared
        ELSE JStr("radio")

StepAttr(a) == IF a.has THEN JStr(a.val) ELSE PyNone

q_type_of(cfg, step) ==
    LET declared == DictGet(cfg.question_type, PyNone)
        own == StepAttr(step.data_type)
    IN  IF Truthy(declared) THEN declared
        ELSE IF Truthy(own) THEN own
        ELSE JStr("radio")

IsType(q_type, names) == q_type.t = "str" /\ q_type.s \in names

--------------------------------------------------------------------------
(* Lines 176-210: radio / checkbox.                                        *)

\* Faulty variant of IsCorrect: every answer id that has a key in the
\* mapping is correct, whatever its flag.
IsCorrect_AnyMappedId(correct_map, answer_id) ==
    IF ~Truthy(correct_map) THEN [raised |-> FALSE, is_correct |-> FALSE]
    ELSE IF correct_map.t # "obj" THEN [raised |-> TRUE, is_correct |-> FALSE]
    ELSE [raised |-> FALSE,
          is_correct |-> \E k \in 1..Len(correct_map.m) : correct_map.m[k].k = answer_id]

\* Lines 199-202. correct_map.get raises unless correct_map is a dict.
IsCorrect(correct_map, answer_id) ==
    IF ~Truthy(correct_map) THEN [raised |-> FALSE, is_correct |-> FALSE]
    ELSE IF correct_map.t # "obj" THEN [raised |-> TRUE, is_correct |-> FALSE]
    ELSE LET val == Lower(PyStrSc(MapGet(correct_map.m, answer_id, Sc("str", "0"))))
         IN  [raised |-> FALSE, is_correct |-> val \in {"1", "true"}]

\* Lines 187-197: the option's text and images.
LabelText(field) == IF field.has_label THEN GetText(LabelNodes(field)) ELSE ""
LabelImages(url, field) == IF field.has_label THEN ImgUrls(url, field.imgs) ELSE <<>>

\* Line 184: input_el.get("value") or ""
AnswerIdOf(field) == IF field.value.has THEN field.value.val ELSE ""

\* Faulty variant of FieldStep: a field without label is skipped like a
\* field without input.
FieldStep_SkipUnlabelled(url, correct_map, options, field) ==
    IF ~field.has_input \/ ~field.has_label THEN Ok(options)
    ELSE LET c == IsCorrect(correct_map, AnswerIdOf(field)) IN
         IF c.raised THEN Raised
         ELSE Ok(Append(options,
                 AnswerOption(LabelText(field), c.is_correct, LabelImages(url, field))))

\* One iteration of the loop of line 179: the options after it.
FieldStep(url, correct_map, options, field) ==
    IF ~field.has_input THEN Ok(options)
    ELSE LET c == IsCorrect(correct_map, AnswerIdOf(field)) IN
         IF c.raised THEN Raised
         ELSE Ok(Append(options,
                 AnswerOption(LabelText(field), c.is_correct, LabelImages(url, field))))

RECURSIVE FieldLoop(_, _, _, _)
FieldLoop(url, correct_map, options, fields) ==
    IF fields = <<>> THEN Ok(options)
    ELSE LET r == FieldStep(url, correct_map, options, Head(fields)) IN
         IF r.raised THEN Raised
         ELSE FieldLoop(url, correct_map, r.options, Tail(fields))

ChoiceOptions(url, cfg, step) ==
    FieldLoop(url, DictGet(cfg.question_answer, JObj(<<>>)), <<>>, step.fields)

--------------------------------------------------------------------------
(* Lines 213-222: short_text.                                              *)

\* Faulty variant of ShortTextOptions: the option is not marked correct.
ShortTextOptions_NotCorrect(cfg) ==
    LET ans == DictGet(cfg.question_answer, JStr("")) IN
    IF Truthy(ans) THEN Ok(<<AnswerOption(PyStr(ans), FALSE, <<>>)>>)
    ELSE Ok(<<>>)

ShortTextOptions(cfg) ==
    LET ans == DictGet(cfg.question_answer, JStr("")) IN
    IF Truthy(ans) THEN Ok(<<AnswerOption(PyStr(ans), TRUE, <<>>)>>)
    ELSE Ok(<<>>)

--------------------------------------------------------------------------
(* Lines 225-258: matching.                                                *)

\* dict `inv[key] = val`: an existing key keeps its place and takes val.
\* Keys are equal when they have the same type and literal (the mappings
\* of the model hold no two values Python hashes alike across types, such
\* as 1 and true).
RECURSIVE InvSet(_, _, _)
InvSet(inv, key, val) ==
    IF inv = <<>> THEN <<Item(key, val)>>
    ELSE IF Head(inv).k = key THEN <<Item(key, val)>> \o Tail(inv)
    ELSE <<Head(inv)>> \o InvSet(Tail(inv), key, val)

\* Faulty variant of InvBuild: the mapping is copied, not inverted.
RECURSIVE InvBuild_NotInverted(_, _)
InvBuild_NotInverted(inv, items) ==
    IF items = <<>> THEN inv
    ELSE InvBuild_NotInverted(InvSet(inv, Sc("str", Head(items).k), PyStrSc(Head(items).v)),
                              Tail(items))

\* Lines 229-231: {v: k for k, v in ans_map.items()}, keys being scalars.
RECURSIVE InvBuild(_, _)
InvBuild(inv, items) ==
    IF items = <<>> THEN inv
    ELSE InvBuild(InvSet(inv, Head(items).v, Head(items).k), Tail(items))

Unhashable(v) == v.t = "arr"

\* ans_map.items() raises unless ans_map is a dict; a list as a value of
\* ans_map cannot be a key of inv_ans_map.
inv_ans_map(ans_map) ==
    IF ans_map.t # "obj" THEN [raised |-> TRUE, inv |-> <<>>]
    ELSE IF \E i \in 1..Len(ans_map.m) : Unhashable(ans_map.m[i].v)
         THEN [raised |-> TRUE, inv |-> <<>>]
    ELSE [raised |-> FALSE, inv |-> InvBuild(<<>>, ans_map.m)]

\* inv_ans_map.get(answer_id): [found, pos]
RECURSIVE InvGet(_, _)
InvGet(inv, answer_id) ==
    IF inv = <<>> THEN [found |-> FALSE, pos |-> ""]
    ELSE IF Head(inv).k = Sc("str", answer_id) THEN [found |-> TRUE, pos |-> Head(inv).v]
    ELSE InvGet(Tail(inv), answer_id)

\* Line 245: match_el.get("data-answer-id", "")
MatchIdOf(pair) == IF pair.answer_id.has THEN pair.answer_id.val ELSE ""

\* Lines 246-251.
PairText(inv, pair) ==
    LET p == InvGet(inv, MatchIdOf(pair)) IN
    IF p.found THEN pair.choice_text \o " -> " \o p.pos ELSE pair.choice_text

\* One iteration of the loop of line 233.
PairStep(url, inv, options, pair) ==
    IF ~pair.has_choice \/ ~pair.has_match THEN options
    ELSE Append(options,
            AnswerOption(PairText(inv, pair), TRUE, ImgUrls(url, pair.choice_imgs)))

RECURSIVE PairLoop(_, _, _, _)
PairLoop(url, inv, options, pairs) ==
    IF pairs = <<>> THEN options
    ELSE PairLoop(url, inv, PairStep(url, inv, options, Head(pairs)), Tail(pairs))

MatchingOptions(url, cfg, step) ==
    LET r == inv_ans_map(DictGet(cfg.question_answer, JObj(<<>>))) IN
    IF r.raised THEN Raised
    ELSE Ok(PairLoop(url, r.inv, <<>>, step.pairs))

--------------------------------------------------------------------------
(* Lines 153-272: the body of the for loop, for one block.                 *)

\* Line 155: quiz_options.get(qid, {})
CfgOf(options_by_id, qid) ==
    IF qid \in DOMAIN options_by_id THEN options_by_id[qid] ELSE EmptyDict

\* Lines 173-258: the dispatch on q_type.
ExtractOptions(url, cfg, step) ==
    LET q_type == q_type_of(cfg, step) IN
    IF IsType(q_type, {"radio", "checkbox"}) THEN ChoiceOptions(url, cfg, step)
    ELSE IF IsType(q_type, {"short_text"}) THEN ShortTextOptions(cfg)
    ELSE IF IsType(q_type, {"matching"}) THEN MatchingOptions(url, cfg, step)
    ELSE Ok(<<>>)

\* Line 262: [i for i, opt in enumerate(options) if opt.is_correct]
RECURSIVE CorrectIdx(_, _)
CorrectIdx(options, i) ==
    IF i > Len(options) THEN <<>>
    ELSE (IF options[i].is_correct THEN <<i - 1>> ELSE <<>>) \o CorrectIdx(options, i + 1)

\* Line 261: [opt.text for opt in options]
Variants(options) == [i \in 1..Len(options) |-> options[i].text]

\* Lines 159-171 and 260-272.
Question(url, step, options) ==
    [text |-> IF step.q_block.has THEN step.q_block.text ELSE "",
     options |-> options,
     variants |-> Variants(options),
     correct_answer |-> CorrectIdx(options, 1),
     images |-> IF step.q_block.has THEN ImgUrls(url, step.q_block.imgs) ELSE <<>>]

NoQuestion == Question("", Step("", NoAttr, QBlock(FALSE, "", <<>>), <<>>, <<>>), <<>>)

\* The whole iteration: cfg.get of line 156 raises unless cfg is a dict.
ProcessStep(url, options_by_id, step) ==
    LET cfg == CfgOf(options_by_id, step.qid) IN
    IF cfg.t # "obj"
    THEN [raised |-> TRUE, q_type |-> PyNone, question |-> NoQuestion]
    ELSE LET r == ExtractOptions(url, cfg, step) IN
         IF r.raised
         THEN [raised |-> TRUE, q_type |-> PyNone, question |-> NoQuestion]
         ELSE [raised |-> FALSE, q_type |-> q_type_of(cfg, step),
               question |-> Question(url, step, r.options)]

--------------------------------------------------------------------------
(* _parse_quiz_from_html as a state machine, one action per loop step.     *)

NoTest == [returned |-> FALSE, title |-> "", url |-> "", questions |-> <<>>]

\* Lines 143-151.
ParseStart ==
    /\ pc = "start"
    /\ quiz_options' = _extract_quiz_options(page.html)
    /\ questions' = <<>>
    /\ q_types' = <<>>
    /\ idx' = 0
    /\ pc' = "loop"
    /\ UNCHANGED <<page, test>>

\* Lines 153-272, an iteration that completes.
StepQuestion ==
    /\ pc = "loop"
    /\ idx < Len(page.steps)
    /\ LET r == ProcessStep(page.url, quiz_options, page.steps[idx + 1]) IN
       /\ ~r.raised
       /\ questions' = Append(questions, r.question)
       /\ q_types' = Append(q_types, r.q_type)
    /\ idx' = idx + 1
    /\ UNCHANGED <<page, pc, quiz_options, test>>

\* Lines 153-272, an iteration that raises: nothing in
\* _parse_quiz_from_html catches, the call ends without a Test.
StepRaise ==
    /\ pc = "loop"
    /\ idx < Len(page.steps)
    /\ ProcessStep(page.url, quiz_options, page.steps[idx + 1]).raised
    /\ pc' = "raised"
    /\ UNCHANGED <<page, quiz_options, idx, questions, q_types, test>>

\* Lines 146-147 and 274.
ParseReturn ==
    /\ pc = "loop"
    /\ idx = Len(page.steps)
    /\ test' = [returned |-> TRUE,
                title |-> IF page.h1.has THEN page.h1.val ELSE page.url,
                url |-> page.url,
                questions |-> questions]
    /\ pc' = "returned"
    /\ UNCHANGED <<page, quiz_options, idx, questions, q_types>>

Next == ParseStart \/ StepQuestion \/ StepRaise \/ ParseReturn

\* A page without question blocks: the run is _extract_quiz_options and
\* the return.
NextExtract == ParseStart \/ ParseReturn

--------------------------------------------------------------------------
(* The inputs of the runs.                                                 *)

QIds == {"52455", "52456"}
PageUrl == "https://info-master.uz/test-1/"

S(x) == Sc("str", x)

\* question_answer as a correctness mapping (answer id -> flag) ...
MapOneCorrect == JObj(<<Item("1", S("1")), Item("2", S("0"))>>)
MapTwoCorrect == JObj(<<Item("1", S("TRUE")), Item("2", Sc("bool", "true"))>>)
MapOddFlags == JObj(<<Item("", Sc("int", "1")), Item("1", S("yes")),
                      Item("2", Sc("bool", "false"))>>)
\* ... and as a matching mapping (position -> answer id).
MapMatching == JObj(<<Item("1", S("a7")), Item("2", S("b3"))>>)
MapMatchingDup == JObj(<<Item("1", S("b3")), Item("2", S("b3")), Item("3", S(""))>>)
MapMatchingList == JObj(<<Item("1", Sc("arr", "'a7'"))>>)

QuestionTypes ==
    {Absent, JStr(""), JStr("radio"), JStr("checkbox"), JStr("short_text"),
     JStr("matching"), JStr("essay")}

QuestionAnswers ==
    {Absent, PyNone, JStr(""), JStr("Paris"), JObj(<<>>), JArr(<<Item("", S("1"))>>),
     MapOneCorrect, MapTwoCorrect, MapOddFlags,
     MapMatching, MapMatchingDup, MapMatchingList}

BadTokens == {Token(k, EmptyDict) : k \in BadKinds}

\* Valid JSON that is not an object: [], "x", null.
NonObjTokens == {Token("json", NonObj(t)) : t \in {"arr", "str", "null"}}

ObjTokens ==
    {Token("json", Cfg(qt, qa)) : qt \in QuestionTypes, qa \in QuestionAnswers}

Tokens == BadTokens \cup NonObjTokens \cup ObjTokens

RelImg == Img(Attr(TRUE, "img/a.png"))
AbsImg == Img(Attr(TRUE, "https://cdn.example/b.png"))
NoSrcImg == Img(NoAttr)

Fields ==
    { Field(TRUE, Attr(TRUE, "1"), TRUE, "Alpha", "", <<>>),
      Field(TRUE, Attr(TRUE, "2"), TRUE, "Beta", "Fig. 2", <<RelImg>>),
      Field(FALSE, NoAttr, TRUE, "Gamma", "", <<>>),
      Field(TRUE, Attr(TRUE, "1"), FALSE, "", "", <<>>),
      Field(TRUE, NoAttr, TRUE, "Delta", "", <<NoSrcImg, AbsImg>>) }

Pairs ==
    { Pair(TRUE, "Cat", <<>>, TRUE, Attr(TRUE, "b3")),
      Pair(TRUE, "Dog", <<RelImg>>, TRUE, Attr(TRUE, "a7")),
      Pair(FALSE, "", <<>>, TRUE, Attr(TRUE, "a7")),
      Pair(TRUE, "Emu", <<>>, FALSE, NoAttr),
      Pair(TRUE, "Fox", <<>>, TRUE, NoAttr) }

\* The sequences over S of length at most n.
SeqsUpTo(S_, n) == UNION {[1..k -> S_] : k \in 0..n}

DataTypes == {NoAttr, Attr(TRUE, ""), Attr(TRUE, "checkbox"), Attr(TRUE, "matching")}

NoQBlock == QBlock(FALSE, "", <<>>)
SomeQBlock == QBlock(TRUE, "What is shown?", <<RelImg>>)

Page(h1, html, steps) == [url |-> PageUrl, h1 |-> h1, html |-> html, steps |-> steps]

\* Block runs: one block of question 52455 with any answer list, and at
\* most one assignment in the text.
BlockSteps ==
    {Step("52455", dt, SomeQBlock, fs, <<>>) :
        dt \in DataTypes, fs \in SeqsUpTo(Fields, MaxFields)}
    \cup
    {Step("52455", dt, NoQBlock, <<>>, ps) :
        dt \in DataTypes, ps \in SeqsUpTo(Pairs, MaxFields)}

BlockTexts ==
    {<<>>, <<Match("52456", Token("json", Cfg(JStr("checkbox"), MapOneCorrect)))>>}
    \cup {<<Match("52455", tok)>> : tok \in Tokens}

BlockPages == {Page(NoAttr, html, <<st>>) : html \in BlockTexts, st \in BlockSteps}

\* Page runs: up to MaxSteps blocks with fixed answer lists.
PageTokens ==
    { Token("bad_json", EmptyDict),
      Token("json", NonObj("arr")),
      Token("json", Cfg(Absent, Absent)),
      Token("json", Cfg(JStr("radio"), MapOneCorrect)),
      Token("json", Cfg(JStr("radio"), JStr("Paris"))),
      Token("json", Cfg(JStr("short_text"), JStr("Paris"))),
      Token("json", Cfg(JStr("matching"), MapMatching)),
      Token("json", Cfg(JStr("matching"), PyNone)) }

TwoFields ==
    << Field(TRUE, Attr(TRUE, "1"), TRUE, "Alpha", "", <<>>),
       Field(TRUE, Attr(TRUE, "2"), TRUE, "Beta", "Fig. 2", <<RelImg>>) >>

TwoPairs ==
    << Pair(TRUE, "Cat", <<>>, TRUE, Attr(TRUE, "b3")),
       Pair(TRUE, "Dog", <<RelImg>>, TRUE, Attr(TRUE, "a7")) >>

PageSteps ==
    {Step(q, dt, SomeQBlock, c[1], c[2]) :
        q \in QIds, dt \in {NoAttr, Attr(TRUE, "matching")},
        c \in {<<<<>>, <<>>>>, <<TwoFields, <<>>>>, <<<<>>, TwoPairs>>}}

PageTexts ==
    {<<>>} \cup {<<Match(q, tok)>> : q \in QIds, tok \in PageTokens}

Pages ==
    {Page(h1, html, steps) :
        h1 \in {NoAttr, Attr(TRUE, "Informatika 1")},
        html \in PageTexts,
        steps \in SeqsUpTo(PageSteps, MaxSteps)}

\* Extraction runs: texts of up to MaxAssign assignments, no block.
ExtractTokens ==
    BadTokens \cup
    { Token("json", NonObj("arr")),
      Token("json", Cfg(JStr("radio"), MapOneCorrect)),
      Token("json", Cfg(JStr("short_text"), JStr("Paris"))) }

ExtractTexts == SeqsUpTo({Match(q, tok) : q \in QIds, tok \in ExtractTokens}, MaxAssign)

ExtractPages == {Page(NoAttr, html, <<>>) : html \in ExtractTexts}

InitWith(pages) ==
    /\ page \in pages
    /\ pc = "start"
    /\ quiz_options = <<>>
    /\ idx = 0
    /\ questions = <<>>
    /\ q_types = <<>>
    /\ test = NoTest

Init == InitWith(Pages)
InitBlock == InitWith(BlockPages)
InitExtract == InitWith(ExtractPages)

Spec == Init /\ [][Next]_vars
SpecBlock == InitBlock /\ [][Next]_vars
SpecExtract == InitExtract /\ [][NextExtract]_vars

--------------------------------------------------------------------------
(* Properties of _extract_quiz_options.                                    *)

Extracted == pc # "start"

\* Read from the text alone: the assignment fails to decode.
Fails(match) == match.b64.kind \in BadKinds

RemoveAt(seq, i) == SubSeq(seq, 1, i - 1) \o SubSeq(seq, i + 1, Len(seq))

IndicesOf(html, qid) == {i \in 1..Len(html) : html[i].qid = qid}
GoodIndicesOf(html, qid) == {i \in IndicesOf(html, qid) : ~Fails(html[i])}
MaxOf(set) == CHOOSE i \in set : \A j \in set : j <= i

\* C5: an assignment whose token fails base64 decoding, UTF-8 decoding or
\* JSON parsing is skipped: the result is the result for the text without
\* that assignment, and a question id whose assignments all fail has no entry.
C5_FailingAssignmentSkipped ==
    Extracted =>
        /\ \A i \in 1..Len(page.html) :
              Fails(page.html[i]) =>
                 quiz_options = _extract_quiz_options(RemoveAt(page.html, i))
        /\ \A q \in QIds :
              GoodIndicesOf(page.html, q) = {} => q \notin DOMAIN quiz_options

\* C5 witness: a text with a failing assignment and a decodable one has
\* been scanned, and the decodable one has its entry.
C5_Witness ==
    /\ Extracted
    /\ \E i, j \in 1..Len(page.html) :
          /\ Fails(page.html[i])
          /\ ~Fails(page.html[j])
          /\ page.html[j].qid \in DOMAIN quiz_options

\* C6 as stated: the entry of a question id is decided by the last
\* assignment for that id in text order alone (no entry if it is skipped).
C6_LastAssignmentDecides ==
    Extracted =>
        \A q \in QIds :
           IndicesOf(page.html, q) # {} =>
              LET last == page.html[MaxOf(IndicesOf(page.html, q))] IN
              /\ (q \in DOMAIN quiz_options) = ~Fails(last)
              /\ q \in DOMAIN quiz_options => quiz_options[q] = last.b64.data

\* C6 amended: the entry of a question id is the payload of the last
\* assignment for that id that decodes; earlier decodable assignments for
\* the id leave no trace, and the id has no entry when none decodes.
C6_LastDecodableAssignmentWins ==
    Extracted =>
        \A q \in QIds :
           LET good == GoodIndicesOf(page.html, q) IN
           /\ (q \in DOMAIN quiz_options) = (good # {})
           /\ good # {} => quiz_options[q] = page.html[MaxOf(good)].b64.data

\* C6 witness: two decodable assignments with different payloads for one
\* id have been scanned.
C6_Witness ==
    /\ Extracted
    /\ \E i, j \in 1..Len(page.html) :
          /\ i < j
          /\ page.html[i].qid = page.html[j].qid
          /\ ~Fails(page.html[i]) /\ ~Fails(page.html[j])
          /\ page.html[i].b64.data # page.html[j].b64.data
          /\ quiz_options[page.html[j].qid] = page.html[j].b64.data

--------------------------------------------------------------------------
(* Properties of the questions built by _parse_quiz_from_html.             *)
(* questions[i] is built from page.steps[i]: the loop appends one          *)
(* Question per block and stops at the first block that raises.            *)

Built == 1..Len(questions)
StepOf(i) == page.steps[i]
HasEntry(i) == StepOf(i).qid \in DOMAIN quiz_options
EntryOf(i) == IF HasEntry(i) THEN quiz_options[StepOf(i).qid] ELSE EmptyDict
AnswerOf(i) == EntryOf(i).question_answer

IsChoice(i) == q_types[i] \in {JStr("radio"), JStr("checkbox")}
IsShortText(i) == q_types[i] = JStr("short_text")
IsMatching(i) == q_types[i] = JStr("matching")

\* Read from the DOM alone.
FieldId(field) == IF field.value.has THEN field.value.val ELSE ""
WithInput(step) == SelectSeq(step.fields, LAMBDA f : f.has_input)
WithInputAndLabel(step) == SelectSeq(step.fields, LAMBDA f : f.has_input /\ f.has_label)
WithBothHalves(step) == SelectSeq(step.pairs, LAMBDA p : p.has_choice /\ p.has_match)
PairId(pair) == IF pair.answer_id.has THEN pair.answer_id.val ELSE ""

\* The flags that equal "1" or "true" up to case.
TrueFlags ==
    {S("1"), S("true"), S("TRUE"), S("True"), Sc("int", "1"), Sc("bool", "true")}

MarksCorrect(items, id) ==
    \E k \in 1..Len(items) : items[k].k = id /\ items[k].v \in TrueFlags

\* The number of extracted options of block i that the mapping marks correct.
MarkedCount(i) ==
    LET kept == WithInput(StepOf(i)) IN
    IF AnswerOf(i).t # "obj" THEN 0
    ELSE Cardinality({j \in 1..Len(kept) : MarksCorrect(AnswerOf(i).m, FieldId(kept[j]))})

\* The positions whose answer id in the mapping is the pair's answer id.
PositionsOf(i, pair) ==
    IF AnswerOf(i).t # "obj" THEN {}
    ELSE {AnswerOf(i).m[k].k : k \in {k \in 1..Len(AnswerOf(i).m) :
                                        AnswerOf(i).m[k].v = S(PairId(pair))}}

\* C1: no exception raised while one block is extracted leaves
\* _parse_quiz_from_html: the call ends by returning a Test that holds one
\* Question per block of the page.
C1_NoExceptionPropagates ==
    pc \in {"returned", "raised"} =>
        /\ test.returned
        /\ Len(test.questions) = Len(page.steps)

\* C2 as stated: a radio or short_text question has at most one correct
\* answer index.
C2_SingleAnswerAtMostOne ==
    \A i \in Built :
       (q_types[i] = JStr("radio") \/ IsShortText(i)) =>
          Len(questions[i].correct_answer) <= 1

\* C2 amended: a short_text question has at most one correct answer index;
\* a radio question has at most one when the mapping marks at most one of
\* its extracted options correct.
C2_AtMostOneUnlessMappingMarksSeveral ==
    \A i \in Built :
       /\ IsShortText(i) => Len(questions[i].correct_answer) <= 1
       /\ (q_types[i] = JStr("radio") /\ MarkedCount(i) <= 1) =>
             Len(questions[i].correct_answer) <= 1

\* C2 witness: a radio question with two options, one of them correct.
C2_Witness ==
    \E i \in Built :
       /\ q_types[i] = JStr("radio")
       /\ Len(questions[i].options) = 2
       /\ Len(questions[i].correct_answer) = 1

\* C3: for a radio/checkbox question with a correctness mapping,
\* len(correct_answer) is the number of extracted options whose answer id
\* maps to "1" or "true" up to case; without a mapping no option is correct.
C3_CorrectCountMatchesMapping ==
    \A i \in Built :
       IsChoice(i) =>
          /\ Len(questions[i].correct_answer) = MarkedCount(i)
          /\ AnswerOf(i).t # "obj" =>
                /\ questions[i].correct_answer = <<>>
                /\ \A j \in 1..Len(questions[i].options) :
                      ~questions[i].options[j].is_correct

\* C3 witness: a checkbox question whose mapping marks two options out of
\* more by flags that differ in case or type.
C3_Witness ==
    \E i \in Built :
       /\ q_types[i] = JStr("checkbox")
       /\ AnswerOf(i) = MapTwoCorrect
       /\ Len(questions[i].options) = 2
       /\ questions[i].correct_answer = <<0, 1>>

\* C4 as stated: a choice field lacking its input or its label, and a
\* matching pair lacking either half, produce no option.
C4_MissingElementNoOption ==
    \A i \in Built :
       /\ IsChoice(i) =>
             Len(questions[i].options) = Len(WithInputAndLabel(StepOf(i)))
       /\ IsMatching(i) =>
             Len(questions[i].options) = Len(WithBothHalves(StepOf(i)))

\* C4 amended: a choice field lacking its input and a matching pair lacking
\* either half produce no option; a choice field lacking only its label
\* produces an option with empty text and no images; the other fields and
\* pairs of the block each produce their option, in order.
C4_MissingInputOrHalfSkipped ==
    \A i \in Built :
       /\ IsChoice(i) =>
             LET kept == WithInput(StepOf(i)) IN
             /\ Len(questions[i].options) = Len(kept)
             /\ \A j \in 1..Len(kept) :
                   IF kept[j].has_label
                   THEN questions[i].options[j].text
                           \in {kept[j].own_text,
                                kept[j].own_text \o " " \o kept[j].caption}
                   ELSE /\ questions[i].options[j].text = ""
                        /\ questions[i].options[j].images = <<>>
       /\ IsMatching(i) =>
             LET kept == WithBothHalves(StepOf(i)) IN
             /\ Len(questions[i].options) = Len(kept)
             /\ \A j \in 1..Len(kept) :
                   questions[i].options[j].text \in
                      {kept[j].choice_text} \cup
                      {kept[j].choice_text \o " -> " \o pos :
                          pos \in PositionsOf(i, kept[j])}

\* C4 witness: a choice block with a field without input followed by a
\* labelled field has yielded one option.
C4_Witness ==
    \E i \in Built :
       /\ IsChoice(i)
       /\ Len(StepOf(i).fields) = 2
       /\ ~StepOf(i).fields[1].has_input
       /\ StepOf(i).fields[2].has_input /\ StepOf(i).fields[2].has_label
       /\ Len(questions[i].options) = 1

\* C7: a matching question has one option per pair with both halves, in
\* DOM order; its text is "<choice text> -> <position>" for a position the
\* mapping sends to the pair's answer id, the bare choice text when there
\* is none; every option is correct.
C7_MatchingOptions ==
    \A i \in Built :
       IsMatching(i) =>
          LET kept == WithBothHalves(StepOf(i)) IN
          /\ Len(questions[i].options) = Len(kept)
          /\ questions[i].correct_answer = [j \in 1..Len(kept) |-> j - 1]
          /\ \A j \in 1..Len(kept) :
                /\ questions[i].options[j].is_correct
                /\ IF PositionsOf(i, kept[j]) = {}
                   THEN questions[i].options[j].text = kept[j].choice_text
                   ELSE \E pos \in PositionsOf(i, kept[j]) :
                           questions[i].options[j].text
                              = kept[j].choice_text \o " -> " \o pos

\* C7 witness: the pairs Cat/b3 and Dog/a7 under {"1": "a7", "2": "b3"}.
C7_Witness ==
    \E i \in Built :
       /\ IsMatching(i)
       /\ AnswerOf(i) = MapMatching
       /\ questions[i].variants = <<"Cat -> 2", "Dog -> 1">>

\* The type the block's config entry declares, the block's data-type
\* attribute, or radio.
EffectiveType(i) ==
    IF HasEntry(i) /\ EntryOf(i).question_type \notin {Absent, JStr("")}
    THEN EntryOf(i).question_type
    ELSE IF StepOf(i).data_type.has /\ StepOf(i).data_type.val # ""
    THEN JStr(StepOf(i).data_type.val)
    ELSE JStr("radio")

\* C8: the type a block is dispatched on is the declared question_type of
\* its config entry, else its data-type attribute, else radio; a block
\* with neither is extracted as radio with no option correct.
C8_EffectiveType ==
    \A i \in Built :
       /\ q_types[i] = EffectiveType(i)
       /\ (~HasEntry(i) /\ ~StepOf(i).data_type.has) =>
             /\ Len(questions[i].options) = Len(WithInput(StepOf(i)))
             /\ questions[i].correct_answer = <<>>

\* C8 witness: a block whose data-type is matching and whose config entry
\* declares checkbox has been extracted as a choice question.
C8_Witness ==
    \E i \in Built :
       /\ HasEntry(i)
       /\ EntryOf(i).question_type = JStr("checkbox")
       /\ StepOf(i).data_type = Attr(TRUE, "matching")
       /\ Len(questions[i].options) = 2

\* C9: a short_text question with a non-empty answer string has exactly
\* one option, with that text, correct, without images, and
\* correct_answer = [0]; with an absent or empty answer it has no option.
C9_ShortText ==
    \A i \in Built :
       IsShortText(i) =>
          /\ (AnswerOf(i).t = "str" /\ AnswerOf(i).s # "") =>
                /\ questions[i].options
                      = <<[text |-> AnswerOf(i).s, is_correct |-> TRUE, images |-> <<>>]>>
                /\ questions[i].correct_answer = <<0>>
          /\ AnswerOf(i) \in {Absent, JStr("")} =>
                /\ questions[i].options = <<>>
                /\ questions[i].correct_answer = <<>>

\* C9 witness: a short_text question with the answer "Paris".
C9_Witness ==
    \E i \in Built :
       /\ IsShortText(i)
       /\ AnswerOf(i) = JStr("Paris")
       /\ questions[i].variants = <<"Paris">>

\* C10: the text of a choice option is the direct text of its label; the
\* text of a label nested inside it is left out.
C10_LabelOwnTextOnly ==
    \A i \in Built :
       IsChoice(i) =>
          LET kept == WithInput(StepOf(i)) IN
          \A j \in 1..Len(kept) :
             (j <= Len(questions[i].options) /\ kept[j].has_label) =>
                questions[i].options[j].text = kept[j].own_text

==========================================================================
